---- MODULE Spec2Model ----
(***************************************************************************)
(* itis::HashTable (src/src/hash_table.cpp): a separate-chaining hash      *)
(* table from int keys to string values that grows by kGrowthCoefficient   *)
(* when num_keys_ / buckets_.size() reaches load_factor_.                  *)
(*                                                                         *)
(* buckets_ is a std::vector of std::list<std::pair<int, std::string>>;    *)
(* here a sequence of sequences of records [first, second], bucket i of    *)
(* the code being buckets_[i + 1].  load_factor_ is a double; it is kept   *)
(* as the fraction num / den, and the comparison of line 49 is done on     *)
(* the cross products, which agrees with the IEEE division for the small   *)
(* integers used here.  std::optional<std::string> is a sequence of        *)
(* length at most one.                                                     *)
(***************************************************************************)
EXTENDS Integers, Sequences, FiniteSets, TLC

\* Keys are drawn from 0 .. MaxKey.
MaxKey == 4
\* The constructor's capacity argument is drawn from 1 .. MaxInitCapacity.
MaxInitCapacity == 4
\* num_keys_ is only ever incremented; a Put of a new key is taken while num_keys_ < MaxPuts.
MaxPuts == 3

Keys == 0 .. MaxKey
Values == {"a", "b"}
\* The constructor's load_factor argument is 0.25, 0.5 or 1.0, as num / den.
LoadFactors == {[num |-> 1, den |-> 4], [num |-> 1, den |-> 2], [num |-> 1, den |-> 1]}

\* HashTable::kGrowthCoefficient (declared in hash_table.hpp).
kGrowthCoefficient == 2

VARIABLES
  buckets_,      \* std::vector<Bucket> buckets_
  num_keys_,     \* int num_keys_
  load_factor_,  \* double load_factor_
  op,            \* the last call: its name and arguments
  ret,           \* what the last call returned
  pre,           \* what the last call found on entry: Search(key), size(), capacity()
  ctor,          \* the arguments the table was constructed with
  absMap         \* the abstract map: key -> optional value, by the calls made so far

vars == <<buckets_, num_keys_, load_factor_, op, ret, pre, ctor, absMap>>

\* std::nullopt and an engaged std::optional
nullopt == <<>>
Some(v) == <<v>>

\* utils::hash(key, size): an index in [0, size)
utils_hash(key, size) == key % size

\* HashTable::hash
hash(key) == utils_hash(key, Len(buckets_))

\* Mutant of Find: only the head of the bucket is compared.
FindHead(bucket, key) ==
  IF Len(bucket) > 0 /\ bucket[1].first = key THEN 1 ELSE 0

\* The range-for scans of Search, Put and Remove: the position of the first
\* pair of the bucket whose first is key, from position i on; 0 when none.
RECURSIVE FindFrom(_, _, _)
FindFrom(bucket, key, i) ==
  IF i > Len(bucket) THEN 0
  ELSE IF bucket[i].first = key THEN i
  ELSE FindFrom(bucket, key, i + 1)

Find(bucket, key) == FindFrom(bucket, key, 1)

\* HashTable::Search
Search(key) ==
  LET bucket == buckets_[hash(key) + 1]
      i == Find(bucket, key)
  IN IF i # 0 THEN Some(bucket[i].second) ELSE nullopt

\* HashTable::ContainsKey
ContainsKey(key) == Search(key) # nullopt

\* HashTable::size
size == num_keys_

\* Mutant of empty: the buckets are inspected instead of the counter.
emptyByBuckets == \A i \in 1 .. Len(buckets_) : buckets_[i] = <<>>

\* HashTable::empty
empty == size = 0

\* HashTable::capacity
capacity == Len(buckets_)

\* HashTable::load_factor
load_factor == load_factor_

\* All pairs of the buckets from bucket i on, in bucket order then list order:
\* the order in which the nested loops of Put, keys and values visit them.
RECURSIVE PairsFrom(_, _)
PairsFrom(bkts, i) ==
  IF i > Len(bkts) THEN <<>> ELSE bkts[i] \o PairsFrom(bkts, i + 1)

Pairs(bkts) == PairsFrom(bkts, 1)

\* HashTable::keys
keys ==
  LET visited == Pairs(buckets_)
  IN {visited[i].first : i \in 1 .. Len(visited)}

\* HashTable::values
values ==
  LET visited == Pairs(buckets_)
  IN [i \in 1 .. Len(visited) |-> visited[i].second]

\* Mutant of OverThreshold: > in place of >=.
OverThresholdStrict(n, cap) == n * load_factor_.den > load_factor_.num * cap

\* static_cast<double>(num_keys_) / buckets_.size() >= load_factor_
OverThreshold(n, cap) == n * load_factor_.den >= load_factor_.num * cap

\* Mutant of NewSize: the bucket count is divided by kGrowthCoefficient, at least 1.
NewSizeShrink(cap) == IF cap \div kGrowthCoefficient >= 1 THEN cap \div kGrowthCoefficient ELSE 1

\* Mutant of NewSize: one more bucket instead of kGrowthCoefficient times as many.
NewSizePlusOne(cap) == cap + 1

\* buckets_.size() * kGrowthCoefficient
NewSize(cap) == cap * kGrowthCoefficient

\* Mutant of Rehash: the new index is computed against the old bucket count.
RehashOldSize(bkts, newSize) ==
  [j \in 1 .. newSize |->
     SelectSeq(Pairs(bkts), LAMBDA p : utils_hash(p.first, Len(bkts)) = j - 1)]

\* Mutant of Rehash: the outer loop starts at the second bucket.
RehashSkipFirst(bkts, newSize) ==
  [j \in 1 .. newSize |->
     SelectSeq(PairsFrom(bkts, 2), LAMBDA p : utils_hash(p.first, newSize) = j - 1)]

\* The rebuild of Put: every pair, in visiting order, is pushed to the back of
\* new_buckets[utils::hash(pair.first, new_buckets.size())].
Rehash(bkts, newSize) ==
  LET visited == Pairs(bkts)
  IN [j \in 1 .. newSize |->
        SelectSeq(visited, LAMBDA p : utils_hash(p.first, newSize) = j - 1)]

\* Mutant of ListRemove: the bucket is cleared.
ListClear(list, value) == <<>>

\* std::list::remove(value): erases every element equal to value
ListRemove(list, value) == SelectSeq(list, LAMBDA p : p # value)

\* HashTable::HashTable, with valid arguments
Construct(cap, lf) ==
  /\ buckets_ = [i \in 1 .. cap |-> <<>>]
  /\ num_keys_ = 0
  /\ load_factor_ = lf

\* Mutant of Put: no return after the overwrite, so the pair is appended as well.
PutFallThrough(key, value) ==
  LET hashIndex == hash(key) + 1
      i == Find(buckets_[hashIndex], key)
      written == IF i # 0 THEN [buckets_ EXCEPT ![hashIndex][i].second = value]
                 ELSE buckets_
      appended == [written EXCEPT
                     ![hashIndex] = Append(@, [first |-> key, second |-> value])]
  IN /\ num_keys_ < MaxPuts
     /\ num_keys_' = num_keys_ + 1
     /\ buckets_' =
          IF OverThreshold(num_keys_ + 1, Len(appended))
          THEN Rehash(appended, NewSize(Len(appended)))
          ELSE appended

\* HashTable::Put
Put(key, value) ==
  LET hashIndex == hash(key) + 1
      i == Find(buckets_[hashIndex], key)
  IN IF i # 0
     THEN /\ buckets_' = [buckets_ EXCEPT ![hashIndex][i].second = value]
          /\ UNCHANGED num_keys_
     ELSE /\ num_keys_ < MaxPuts
          /\ LET appended == [buckets_ EXCEPT
                                ![hashIndex] = Append(@, [first |-> key, second |-> value])]
             IN /\ num_keys_' = num_keys_ + 1
                /\ buckets_' =
                     IF OverThreshold(num_keys_ + 1, Len(appended))
                     THEN Rehash(appended, NewSize(Len(appended)))
                     ELSE appended

\* Mutant of Remove: num_keys_ is decremented whether or not the key was found.
RemoveCountAlways(key) ==
  LET index == hash(key) + 1
      i == Find(buckets_[index], key)
  IN /\ IF i # 0
        THEN /\ buckets_' = [buckets_ EXCEPT ![index] = ListRemove(@, buckets_[index][i])]
             /\ ret' = Some(buckets_[index][i].second)
        ELSE /\ UNCHANGED buckets_
             /\ ret' = nullopt
     /\ num_keys_' = num_keys_ - 1

\* HashTable::Remove
Remove(key) ==
  LET index == hash(key) + 1
      i == Find(buckets_[index], key)
  IN /\ IF i # 0
        THEN /\ buckets_' = [buckets_ EXCEPT ![index] = ListRemove(@, buckets_[index][i])]
             /\ ret' = Some(buckets_[index][i].second)
        ELSE /\ UNCHANGED buckets_
             /\ ret' = nullopt
     /\ UNCHANGED num_keys_

\* What a call finds on entry.
Entry(key) == [found |-> Search(key), size |-> size, capacity |-> capacity]

Init ==
  /\ \E cap \in 1 .. MaxInitCapacity, lf \in LoadFactors :
       /\ Construct(cap, lf)
       /\ ctor = [capacity |-> cap, load_factor |-> lf]
  /\ op = [name |-> "HashTable"]
  /\ ret = nullopt
  /\ pre = [found |-> nullopt, size |-> 0, capacity |-> 0]
  /\ absMap = [k \in Keys |-> nullopt]

PutCall ==
  \E key \in Keys, value \in Values :
    /\ Put(key, value)
    /\ op' = [name |-> "Put", key |-> key, value |-> value]
    /\ ret' = nullopt
    /\ pre' = Entry(key)
    /\ absMap' = [absMap EXCEPT ![key] = Some(value)]
    /\ UNCHANGED <<load_factor_, ctor>>

RemoveCall ==
  \E key \in Keys :
    /\ Remove(key)
    /\ op' = [name |-> "Remove", key |-> key]
    /\ pre' = Entry(key)
    /\ absMap' = [absMap EXCEPT ![key] = nullopt]
    /\ UNCHANGED <<load_factor_, ctor>>

SearchCall ==
  \E key \in Keys :
    /\ op' = [name |-> "Search", key |-> key]
    /\ ret' = Search(key)
    /\ pre' = Entry(key)
    /\ UNCHANGED <<buckets_, num_keys_, load_factor_, ctor, absMap>>

Next == PutCall \/ RemoveCall \/ SearchCall

Spec == Init /\ [][Next]_vars

\* The constructor's capacity argument, valid or not.
CtorCapacities == -1 .. MaxInitCapacity + 1

\* The constructor's load_factor argument, valid or not: -0.25, 0.0 and 1.25
\* besides the valid ones.
CtorLoadFactors ==
  LoadFactors \union
    {[num |-> -1, den |-> 4], [num |-> 0, den |-> 1], [num |-> 5, den |-> 4]}

\* A thrown std::logic_error with its message; no exception is nullopt.
LogicError(what) == <<"std::logic_error", what>>

\* Mutant of CtorCheck: load_factor < 0.0 in place of load_factor <= 0.0.
CtorCheckZeroAccepted(cap, lf) ==
  IF cap <= 0
  THEN LogicError("hash table capacity must be greater than zero")
  ELSE IF lf.num < 0 \/ lf.num > lf.den
  THEN LogicError("hash table load factor must be in range [0...1]")
  ELSE nullopt

\* The argument checks of HashTable::HashTable: what it throws, if anything.
CtorCheck(cap, lf) ==
  IF cap <= 0
  THEN LogicError("hash table capacity must be greater than zero")
  ELSE IF lf.num <= 0 \/ lf.num > lf.den
  THEN LogicError("hash table load factor must be in range [0...1]")
  ELSE nullopt

\* No table has been constructed: there are no members to speak of.
NoTable == [capacity |-> 0, load_factor |-> [num |-> 0, den |-> 1]]

\* A table exists.
Constructed == ctor # NoTable

InitCtor ==
  /\ buckets_ = <<>>
  /\ num_keys_ = 0
  /\ load_factor_ = NoTable.load_factor
  /\ ctor = NoTable
  /\ op = [name |-> "none"]
  /\ ret = nullopt
  /\ pre = [found |-> nullopt, size |-> 0, capacity |-> 0]
  /\ absMap = [k \in Keys |-> nullopt]

\* HashTable::HashTable with any arguments: throws and leaves no table, or
\* allocates the buckets.
ConstructCall ==
  /\ ~Constructed
  /\ \E cap \in CtorCapacities, lf \in CtorLoadFactors :
       /\ op' = [name |-> "HashTable", capacity |-> cap, load_factor |-> lf]
       /\ ret' = CtorCheck(cap, lf)
       /\ IF CtorCheck(cap, lf) # nullopt
          THEN UNCHANGED <<buckets_, num_keys_, load_factor_, ctor>>
          ELSE /\ buckets_' = [i \in 1 .. cap |-> <<>>]
               /\ num_keys_' = 0
               /\ load_factor_' = lf
               /\ ctor' = [capacity |-> cap, load_factor |-> lf]
       /\ UNCHANGED <<pre, absMap>>

NextCtor == ConstructCall \/ (Constructed /\ Next)

SpecCtor == InitCtor /\ [][NextCtor]_vars

(***************************************************************************)
(* Properties                                                              *)
(***************************************************************************)

\* The number of pairs stored in the buckets from bucket i on.
RECURSIVE StoredFrom(_, _)
StoredFrom(bkts, i) ==
  IF i > Len(bkts) THEN 0 ELSE Len(bkts[i]) + StoredFrom(bkts, i + 1)

\* The number of pairs stored across all buckets.
Stored == StoredFrom(buckets_, 1)

\* How many stored pairs carry the key.
Occurrences(key) == Len(SelectSeq(Pairs(buckets_), LAMBDA p : p.first = key))

\* n / cap >= load_factor(), on the fraction load_factor() stands for.
AtOrAboveLoadFactor(n, cap) == n * load_factor.den >= load_factor.num * cap

\* The last call was a Put of a key that was absent on entry.
PutNew == op.name = "Put" /\ pre.found = nullopt

\* The last call was a Put of a key that was present on entry.
PutExisting == op.name = "Put" /\ pre.found # nullopt

\* The last call was a Put that rebuilt the bucket array.
PutResized == op.name = "Put" /\ capacity # pre.capacity

\* C1: in every reachable state size() is the number of pairs stored across
\* all buckets, and keys() and values() have exactly size() elements.
C1_SizeCountsEntries ==
  /\ size = Stored
  /\ Cardinality(keys) = size
  /\ Len(values) = size

\* C2: a Remove of a key that is present decrements size() by exactly one.
C2_RemoveDecrementsSize ==
  (op.name = "Remove" /\ pre.found # nullopt) => size = pre.size - 1

\* C3 as stated: after any Put that inserts a new key, for every valid
\* construction, size() / capacity() < load_factor().
C3_UnderThresholdAfterInsert ==
  PutNew => ~AtOrAboveLoadFactor(size, capacity)

\* The constructed capacity, once grown by kGrowthCoefficient, times the load
\* factor exceeds one: capacity * kGrowthCoefficient * load_factor > 1.
GrowthSuffices ==
  ctor.capacity * kGrowthCoefficient * ctor.load_factor.num > ctor.load_factor.den

\* C3 amended: for every valid construction with
\* capacity * kGrowthCoefficient * load_factor > 1, after any Put that inserts
\* a new key size() / capacity() < load_factor().
C3_UnderThresholdWhenGrowthSuffices ==
  (GrowthSuffices /\ PutNew) => ~AtOrAboveLoadFactor(size, capacity)

\* A Put of a new key has resized a table constructed with
\* capacity * kGrowthCoefficient * load_factor > 1.
C3_Witness == GrowthSuffices /\ PutNew /\ PutResized

\* C4: after Put(k, v), Search(k) returns v, whether k was new or present and
\* whether or not the Put resized.
C4_PutThenSearch ==
  op.name = "Put" => Search(op.key) = Some(op.value)

\* A Put of a new key into a table holding other keys has resized it.
C4_Witness == PutNew /\ PutResized /\ Stored >= 2

\* C5: a Remove of a present key k returns its value, leaves Search(k) absent
\* and leaves Search(j) as it was for every other key j.
C5_RemovePresent ==
  [][(op'.name = "Remove" /\ pre'.found # nullopt) =>
       /\ \A k \in {op'.key} :
            /\ Search(k) = pre'.found
            /\ ret' = Search(k)
            /\ Search(k)' = nullopt
       /\ \A j \in Keys \ {op'.key} : Search(j)' = Search(j)]_vars

\* A Remove has returned the value of a present key whose bucket held another key.
C5_Witness ==
  /\ op.name = "Remove"
  /\ pre.found # nullopt
  /\ ret = pre.found
  /\ buckets_[hash(op.key) + 1] # <<>>

\* C6: keys() is the set of keys Put and not since Removed, Search returns
\* the value of the most recent Put for each of them and absent for every
\* other key.
C6_RefinesMap ==
  /\ keys = {k \in Keys : absMap[k] # nullopt}
  /\ \A k \in Keys : Search(k) = absMap[k]

\* After a resize and a Remove the table still holds keys, one of them
\* behind another in its bucket.
C6_Witness ==
  /\ op.name = "Remove"
  /\ pre.found # nullopt
  /\ capacity # ctor.capacity
  /\ \E i \in 1 .. capacity : Len(buckets_[i]) >= 2

\* C7: a Put of a key that is present leaves size() and capacity() unchanged,
\* even at or above the threshold, does not duplicate the key, and makes
\* Search(k) return the new value.
C7_UpdateInPlace ==
  PutExisting =>
    /\ size = pre.size
    /\ capacity = pre.capacity
    /\ Occurrences(op.key) = 1
    /\ Search(op.key) = Some(op.value)

\* A Put has overwritten a different value while size / capacity was at or
\* above the load factor.
C7_Witness ==
  /\ PutExisting
  /\ pre.found # Some(op.value)
  /\ AtOrAboveLoadFactor(size, capacity)

\* C8: a Put that resizes keeps Search(j) of every other key j, and the
\* rebuild neither loses nor duplicates a pair: the buckets hold one pair
\* more than before, all with different keys.
C8_ResizePreserves ==
  /\ [][(op'.name = "Put" /\ capacity' # capacity) =>
          /\ \A j \in Keys \ {op'.key} : Search(j)' = Search(j)
          /\ Stored' = Stored + 1]_vars
  /\ [](PutResized => Cardinality(keys) = Stored)

\* A Put has resized a table that held at least two other keys.
C8_Witness == PutResized /\ Stored >= 3

\* C9: Remove and Search of a key that is not present return absent and
\* leave buckets, size() and capacity() as they were.
C9_AbsentKey ==
  [][(op'.name \in {"Remove", "Search"} /\ pre'.found = nullopt) =>
       /\ \A k \in {op'.key} : Search(k) = nullopt
       /\ ret' = nullopt
       /\ buckets_' = buckets_
       /\ size' = size
       /\ capacity' = capacity]_vars

\* A Remove of a key that was not present has returned absent, on a table
\* that holds keys.
C9_Witness ==
  /\ op.name = "Remove"
  /\ pre.found = nullopt
  /\ ret = nullopt
  /\ Stored >= 1

\* The load factor is one half.
HalfLoad == load_factor_.num * 2 = load_factor_.den

\* C10: a Put of a new key resizes exactly when, after the increment,
\* size / capacity >= load_factor; with capacity 4 and load factor 0.5 the
\* first Put of a new key leaves capacity at 4 and the second makes it larger,
\* with every key of the table still found by Search.
C10_ResizeExactlyAtThreshold ==
  PutNew =>
    /\ size = pre.size + 1
    /\ (capacity # pre.capacity) <=> AtOrAboveLoadFactor(size, pre.capacity)
    /\ (pre.capacity = 4 /\ HalfLoad /\ size = 1) => capacity = 4
    /\ (pre.capacity = 4 /\ HalfLoad /\ size = 2) =>
         /\ capacity > 4
         /\ \A k \in Keys : absMap[k] # nullopt => Search(k) = absMap[k]

\* The second Put of a distinct key into a table constructed with capacity 4
\* and load factor 0.5 has resized it, and it holds both keys.
C10_Witness ==
  /\ PutNew
  /\ ctor.capacity = 4
  /\ pre.capacity = 4
  /\ HalfLoad
  /\ size = 2
  /\ capacity > 4
  /\ Cardinality(keys) = 2

\* C11: capacity() is at least 1 and never decreases: Remove and Search
\* (which is all ContainsKey runs) leave it as it was on entry, Put leaves it
\* or raises it, and load_factor() keeps its constructed value, which lies
\* in (0, 1].
C11_CapacityNeverShrinks ==
  /\ capacity >= 1
  /\ op.name \in {"Remove", "Search"} => capacity = pre.capacity
  /\ op.name = "Put" => capacity >= pre.capacity
  /\ load_factor = ctor.load_factor
  /\ load_factor.num > 0
  /\ load_factor.num <= load_factor.den

\* A Remove has emptied a table that an earlier Put had grown: the capacity
\* is still the grown one.
C11_Witness ==
  /\ op.name = "Remove"
  /\ pre.found # nullopt
  /\ Stored = 0
  /\ capacity > ctor.capacity

\* The arguments of the last call, a construction, were valid.
ValidArguments ==
  /\ op.capacity > 0
  /\ op.load_factor.num > 0
  /\ op.load_factor.num <= op.load_factor.den

\* C12: construction with capacity <= 0, load_factor <= 0 or load_factor > 1
\* throws and yields no table; construction with valid arguments, capacity 5
\* with load factor 0.5 and the boundary 1.0 among them, yields exactly
\* capacity empty buckets and size() = 0.
C12_ConstructionValidated ==
  op.name = "HashTable" =>
    /\ ~ValidArguments =>
         /\ Len(ret) = 2
         /\ ret[1] = "std::logic_error"
         /\ ~Constructed
         /\ buckets_ = <<>>
    /\ ValidArguments =>
         /\ ret = nullopt
         /\ Constructed
         /\ capacity = op.capacity
         /\ \A i \in 1 .. capacity : buckets_[i] = <<>>
         /\ size = 0
         /\ load_factor = op.load_factor

\* Construction with capacity 5 and the boundary load factor 1.0 has succeeded.
C12_Witness ==
  /\ op.name = "HashTable"
  /\ op.capacity = 5
  /\ op.load_factor = [num |-> 1, den |-> 1]
  /\ capacity = 5
  /\ size = 0

\* C13: after every sequence of Put and Remove calls, empty() is true if and
\* only if size() = 0.
C13_EmptyIffSizeZero == empty <=> (num_keys_ = 0)

\* A Remove has taken the last pair out of the buckets; size() is not 0 and
\* empty() is false.
C13_Witness ==
  /\ op.name = "Remove"
  /\ pre.found # nullopt
  /\ Stored = 0
  /\ ~empty

\* C14: every stored pair sits in the bucket whose index is
\* utils::hash(key, capacity()), and no key is stored twice.
C14_KeyInItsBucketOnce ==
  /\ \A i \in 1 .. capacity :
       \A j \in 1 .. Len(buckets_[i]) :
         /\ utils_hash(buckets_[i][j].first, capacity) = i - 1
         /\ \A l \in 1 .. Len(buckets_[i]) :
              buckets_[i][l].first = buckets_[i][j].first => l = j
  /\ Cardinality(keys) = Stored

\* Right after a resize a bucket of the new array holds two keys.
C14_Witness ==
  /\ PutResized
  /\ \E i \in 1 .. capacity : Len(buckets_[i]) >= 2

\* C15: after any Put capacity() is what it was on entry or that times
\* kGrowthCoefficient: the resize is not repeated within the call, even when
\* size() / capacity() is still at or above load_factor().
C15_AtMostOneResize ==
  op.name = "Put" =>
    \/ capacity = pre.capacity
    \/ capacity = pre.capacity * kGrowthCoefficient

\* A Put has resized once and size() / capacity() is still at or above
\* load_factor().
C15_Witness ==
  /\ PutResized
  /\ capacity = pre.capacity * kGrowthCoefficient
  /\ AtOrAboveLoadFactor(size, capacity)

\* C16: the buckets never hold more pairs than size() says, and size()
\* changes only in a Put of a new key, by +1: every other call leaves it as it
\* was on entry.
C16_CounterOnlyGrows ==
  /\ Stored <= size
  /\ PutNew => size = pre.size + 1
  /\ (PutExisting \/ op.name \in {"Remove", "Search"}) => size = pre.size

\* A Remove has erased a pair and size() now exceeds the number of pairs
\* stored.
C16_Witness ==
  /\ op.name = "Remove"
  /\ pre.found # nullopt
  /\ size = pre.size
  /\ Stored < size

\* C17: a Put of a new key resizes only when the number of pairs stored in
\* the buckets, the new one included, divided by the capacity on entry is at
\* or above load_factor().
C17_ResizeOnlyAtRealOccupancy ==
  PutResized => AtOrAboveLoadFactor(Stored, pre.capacity)

====
